---- MODULE Spec2Model ----
(***************************************************************************)
(* The NodeClaim state-synchronization controller of karpenter             *)
(* (package informer, NodeClaimController) together with the collaborators *)
(* it talks to: the Resource Store it reads NodeClaims from, the Cluster   *)
(* State Store it mirrors them into, and the work queue that schedules its *)
(* reconciliation cycles.                                                  *)
(***************************************************************************)
EXTENDS Naturals, Sequences, FiniteSets, Bags, TLC

VARIABLES
    names,      \* the NodeClaim names that occur in this run
    store,      \* Resource Store: the set of NodeClaim records that exist
    changes,    \* number of writes the Resource Store has accepted so far
    pending,    \* notifications emitted by the Resource Store, not yet delivered
    queue,      \* work queue: FIFO of names waiting for a worker
    dirty,      \* work queue: names that need processing
    processing, \* work queue: names handed to a worker and not yet Done
    waiting,    \* delaying queue: names with a delayed Add outstanding
    active,     \* bag of reconciliation cycles between their Get and their return
    cluster,    \* Cluster State Store: the set of mirrored NodeClaim records
    ret,        \* what the step just taken returned to the caller of Reconcile
    api         \* the write request the Resource Store has just answered, and its answer

vars == <<names, store, changes, pending, queue, dirty, processing, waiting,
          active, cluster, ret, api>>

----------------------------------------------------------------------------
(* Bounds and value sets *)

\* Resource Store writes (create, status update, delete) explored per run.
MaxChanges == 3

\* NodeClaim names of the general specification.
Names == {"ng-1", "ng-2"}

\* NodeClaim names of the worker-pool specification: one more than the pool has workers.
PoolNames == {"ng-1", "ng-2", "ng-3", "ng-4", "ng-5", "ng-6", "ng-7", "ng-8",
              "ng-9", "ng-10", "ng-11"}

\* The spec a NodeClaim is created with, and the status values its lifecycle writes.
SpecValues == {"spec-a", "spec-b"}
StatusValues == {"", "ready"}

\* Errors a Get can fail with besides not-found.
FetchErrors == {"Timeout", "Canceled", "DeadlineExceeded"}
NotFound == "NotFound"
Nil == "nil"

----------------------------------------------------------------------------
(* The NodeClaim record *)

NodeClaim(name, spec, status) == [name |-> name, spec |-> spec, status |-> status]

\* The zero value Reconcile allocates before Get fills it.
EmptyNodeClaim == NodeClaim("", "", "")

\* The records a set of NodeClaims holds under a name (none or one).
Entry(S, name) == {x \in S : x.name = name}

Has(S, name) == Entry(S, name) # {}

----------------------------------------------------------------------------
(* NodeClaimSpec and the validation rules attached to its schema *)

\* A string is a sequence of characters, so that int() has digits to parse.
Digits == {"0", "1", "2", "3", "4", "5", "6", "7", "8", "9"}

DigitValue(c) ==
    CASE c = "0" -> 0 [] c = "1" -> 1 [] c = "2" -> 2 [] c = "3" -> 3
      [] c = "4" -> 4 [] c = "5" -> 5 [] c = "6" -> 6 [] c = "7" -> 7
      [] c = "8" -> 8 [] c = "9" -> 9

RECURSIVE DigitsValue(_)
DigitsValue(s) ==
    IF s = <<>> THEN 0
    ELSE 10 * DigitsValue(SubSeq(s, 1, Len(s) - 1)) + DigitValue(s[Len(s)])

\* int(string): an optional sign and at least one decimal digit, nothing
\* else; anything else is an evaluation error. The value is sign and
\* magnitude (neg is set for a leading "-").
ParseInt(s) ==
    LET signed == s # <<>> /\ s[1] \in {"+", "-"}
        body   == IF signed THEN Tail(s) ELSE s
        ok     == body # <<>> /\ \A i \in 1..Len(body) : body[i] \in Digits
    IN  [ok  |-> ok,
         neg |-> ok /\ signed /\ s[1] = "-" /\ DigitsValue(body) # 0,
         abs |-> IF ok THEN DigitsValue(body) ELSE 0]

\* int(x) >= 0, false when int(x) is an error.
IntIsNonNegative(s) == ParseInt(s).ok /\ ~ParseInt(s).neg

\* minValues is a pointer: nil (no element) or one integer.
NoMinValues == <<>>
MinValues(n) == <<n>>

HasMinValues(x) == x.minValues # NoMinValues

Requirement(key, operator, values, minValues) ==
    [key |-> key, operator |-> operator, values |-> values, minValues |-> minValues]

Operators == {"In", "NotIn", "Exists", "DoesNotExist", "Gt", "Lt"}

\* "requirements with operator 'In' must have a value defined"
RuleInHasValue(x) ==
    IF x.operator = "In" THEN Len(x.values) # 0 ELSE TRUE

\* Mutant: the integer has to be positive, as the message says.
RuleGtLtSinglePositive(x) ==
    IF x.operator = "Gt" \/ x.operator = "Lt"
    THEN Len(x.values) = 1 /\ IntIsNonNegative(x.values[1])
                           /\ ParseInt(x.values[1]).abs > 0
    ELSE TRUE

\* "requirements operator 'Gt' or 'Lt' must have a single positive integer value"
RuleGtLtSingleInteger(x) ==
    IF x.operator = "Gt" \/ x.operator = "Lt"
    THEN Len(x.values) = 1 /\ IntIsNonNegative(x.values[1])
    ELSE TRUE

\* Mutant: as many values as minValues are not enough.
RuleMinValuesCountStrict(x) ==
    IF x.operator = "In" /\ HasMinValues(x)
    THEN Len(x.values) > x.minValues[1]
    ELSE TRUE

\* "requirements with 'minValues' must have at least that many values
\* specified in the 'values' field"
RuleMinValuesCount(x) ==
    IF x.operator = "In" /\ HasMinValues(x)
    THEN Len(x.values) >= x.minValues[1]
    ELSE TRUE

MaxItems == 100
MinValuesMinimum == 1
MinValuesMaximum == 50

\* The bounds of the minValues field.
\* Mutant: the bounds of minValues are asked of In requirements only.
MinValuesInRangeForIn(x) ==
    (x.operator = "In" /\ HasMinValues(x)) =>
        (x.minValues[1] >= 1 /\ x.minValues[1] <= 50)

MinValuesInRange(x) ==
    HasMinValues(x) =>
        (x.minValues[1] >= MinValuesMinimum /\ x.minValues[1] <= MinValuesMaximum)

\* Mutant: the In rule is asked of some element (self.exists) instead of all.
RequirementsViolationsInExists(requirements) ==
    {m \in {"MaxItems", "minValues.Minimum/Maximum", "In must have a value",
            "Gt/Lt single positive integer", "minValues count"} :
        \/ m = "MaxItems" /\ Len(requirements) > MaxItems
        \/ m = "minValues.Minimum/Maximum"
              /\ ~\A i \in 1..Len(requirements) : MinValuesInRange(requirements[i])
        \/ m = "In must have a value"
              /\ requirements # <<>>
              /\ ~\E i \in 1..Len(requirements) : RuleInHasValue(requirements[i])
        \/ m = "Gt/Lt single positive integer"
              /\ ~\A i \in 1..Len(requirements) : RuleGtLtSingleInteger(requirements[i])
        \/ m = "minValues count"
              /\ ~\A i \in 1..Len(requirements) : RuleMinValuesCount(requirements[i])}

\* Validation of spec.requirements: the messages of the rules it violates
\* (self.all(x, rule): the rule holds of every element of the list).
RequirementsViolations(requirements) ==
    {m \in {"MaxItems", "minValues.Minimum/Maximum", "In must have a value",
            "Gt/Lt single positive integer", "minValues count"} :
        \/ m = "MaxItems" /\ Len(requirements) > MaxItems
        \/ m = "minValues.Minimum/Maximum"
              /\ ~\A i \in 1..Len(requirements) : MinValuesInRange(requirements[i])
        \/ m = "In must have a value"
              /\ ~\A i \in 1..Len(requirements) : RuleInHasValue(requirements[i])
        \/ m = "Gt/Lt single positive integer"
              /\ ~\A i \in 1..Len(requirements) : RuleGtLtSingleInteger(requirements[i])
        \/ m = "minValues count"
              /\ ~\A i \in 1..Len(requirements) : RuleMinValuesCount(requirements[i])}

NodeClaimSpec(taints, startupTaints, requirements, resources, nodeClassRef) ==
    [taints |-> taints, startupTaints |-> startupTaints,
     requirements |-> requirements, resources |-> resources,
     nodeClassRef |-> nodeClassRef]

\* Validation of a NodeClaim on create.
ValidateCreate(spec) == RequirementsViolations(spec.requirements)

\* Mutant: only the requirements are compared.
RuleSpecImmutableRequirementsOnly(self, oldSelf) ==
    self.requirements = oldSelf.requirements

\* "spec is immutable": self == oldSelf
RuleSpecImmutable(self, oldSelf) == self = oldSelf

\* Validation of a NodeClaim on update.
ValidateUpdate(spec, oldSpec) ==
    RequirementsViolations(spec.requirements)
        \cup (IF RuleSpecImmutable(spec, oldSpec) THEN {} ELSE {"spec is immutable"})

----------------------------------------------------------------------------
(* Resource Store: the authoritative store behind kubeClient *)

\* The store's answer to one client request: the store afterwards, the error
\* and the object handed back.
StoreServe(S, r) ==
    CASE r.verb = "get" ->
            IF Has(S, r.name)
            THEN [store |-> S, err |-> Nil, obj |-> CHOOSE x \in S : x.name = r.name]
            ELSE [store |-> S, err |-> NotFound, obj |-> EmptyNodeClaim]
      [] r.verb = "delete" ->
            IF Has(S, r.name)
            THEN [store |-> S \ Entry(S, r.name), err |-> Nil, obj |-> EmptyNodeClaim]
            ELSE [store |-> S, err |-> NotFound, obj |-> EmptyNodeClaim]
      [] OTHER -> [store |-> S, err |-> "BadRequest", obj |-> EmptyNodeClaim]

\* A request that fails in transit (timeout, cancelled or expired context)
\* never reaches the store.
StoreFail(S, fault) == [store |-> S, err |-> fault, obj |-> EmptyNodeClaim]

----------------------------------------------------------------------------
(* Cluster State Store: state.Cluster *)

\* Mutant: an entry that is already there is dropped instead of replaced.
UpdateNodeClaimToggle(C, nodeClaim) ==
    IF Has(C, nodeClaim.name)
    THEN {x \in C : x.name # nodeClaim.name}
    ELSE C \cup {nodeClaim}

UpdateNodeClaim(C, nodeClaim) == {x \in C : x.name # nodeClaim.name} \cup {nodeClaim}

DeleteNodeClaim(C, name) == {x \in C : x.name # name}

ApplyCall(C, call) ==
    IF call.op = "UpdateNodeClaim"
    THEN UpdateNodeClaim(C, call.nodeClaim)
    ELSE DeleteNodeClaim(C, call.name)

RECURSIVE ApplyCalls(_, _)
ApplyCalls(C, calls) ==
    IF calls = <<>> THEN C ELSE ApplyCalls(ApplyCall(C, Head(calls)), Tail(calls))

----------------------------------------------------------------------------
(* NodeClaimController.Reconcile *)

stateRetryPeriod == 60

\* Mutant: every error is taken for not-found.
IsNotFoundAnyError(err) == err # Nil

IsNotFound(err) == err = NotFound

\* Mutant: the not-found error is returned like any other.
IgnoreNotFoundKeeps(err) == err

IgnoreNotFound(err) == IF err = NotFound THEN Nil ELSE err

\* Mutant: Reconcile removes the record it was asked about.
KubeRequestDelete(req) == [verb |-> "delete", name |-> req]

\* Mutant: the Get asks for one fixed name instead of the request's.
KubeRequestFixedName(req) == [verb |-> "get", name |-> "ng-1"]

\* The one request Reconcile sends to the Resource Store.
KubeRequest(req) == [verb |-> "get", name |-> req]

\* Mutant: a not-found Get is not passed on to the Cluster State Store.
ClusterCallsNoDelete(req, err, nodeClaim) ==
    IF err # Nil
    THEN <<>>
    ELSE <<[op |-> "UpdateNodeClaim", nodeClaim |-> nodeClaim]>>

\* Mutant: any failed Get is taken for a deletion.
ClusterCallsDeleteOnError(req, err, nodeClaim) ==
    IF err # Nil
    THEN <<[op |-> "DeleteNodeClaim", name |-> req]>>
    ELSE <<[op |-> "UpdateNodeClaim", nodeClaim |-> nodeClaim]>>

\* Mutant: the upsert is handed a fresh NodeClaim instead of the fetched one.
ClusterCallsUpsertEmpty(req, err, nodeClaim) ==
    IF err # Nil
    THEN IF err = NotFound
         THEN <<[op |-> "DeleteNodeClaim", name |-> req]>>
         ELSE <<>>
    ELSE <<[op |-> "UpdateNodeClaim", nodeClaim |-> EmptyNodeClaim]>>

\* The calls Reconcile makes on the Cluster State Store, in order, given what
\* its Get returned.
ClusterCalls(req, err, nodeClaim) ==
    IF err # Nil
    THEN IF IsNotFound(err)
         THEN <<[op |-> "DeleteNodeClaim", name |-> req]>>
         ELSE <<>>
    ELSE <<[op |-> "UpdateNodeClaim", nodeClaim |-> nodeClaim]>>

\* Mutant: a successful cycle asks for no resync.
ReconcileResultNoRequeue(err) ==
    IF err # Nil
    THEN [RequeueAfter |-> 0, err |-> IF err = NotFound THEN Nil ELSE err]
    ELSE [RequeueAfter |-> 0, err |-> Nil]

\* Mutant: a successful cycle asks for an immediate requeue, not the period.
ReconcileResultNoPeriod(err) ==
    IF err # Nil
    THEN [RequeueAfter |-> 0, err |-> IF err = NotFound THEN Nil ELSE err]
    ELSE [RequeueAfter |-> 1, err |-> Nil]

\* Mutant: the resync is requested after a not-found Get as well.
ReconcileResultAlwaysRequeue(err) ==
    IF err # Nil /\ err # NotFound
    THEN [RequeueAfter |-> 0, err |-> err]
    ELSE [RequeueAfter |-> stateRetryPeriod, err |-> Nil]

\* What Reconcile returns, given what its Get returned.
ReconcileResult(err) ==
    IF err # Nil
    THEN [RequeueAfter |-> 0, err |-> IgnoreNotFound(err)]
    ELSE [RequeueAfter |-> stateRetryPeriod, err |-> Nil]

\* Mutant: one worker more.
MaxConcurrentReconcilesPlusOne == 10 + 1

MaxConcurrentReconciles == 10

NoReturn == [req |-> ""]

\* No write request has just been answered.
NoRequest == [verb |-> ""]

----------------------------------------------------------------------------
(* Work queue of the controller: FIFO with de-duplication *)

Q == [queue |-> queue, dirty |-> dirty, processing |-> processing]

QAdd(q, k) ==
    IF k \in q.dirty THEN q
    ELSE IF k \in q.processing THEN [q EXCEPT !.dirty = @ \cup {k}]
    ELSE [q EXCEPT !.dirty = @ \cup {k}, !.queue = Append(@, k)]

QGet(q) ==
    [q EXCEPT !.queue = Tail(@),
              !.processing = @ \cup {Head(q.queue)},
              !.dirty = @ \ {Head(q.queue)}]

QDone(q, k) ==
    IF k \in q.dirty
    THEN [q EXCEPT !.processing = @ \ {k}, !.queue = Append(@, k)]
    ELSE [q EXCEPT !.processing = @ \ {k}]

SetQ(q) == /\ queue' = q.queue
           /\ dirty' = q.dirty
           /\ processing' = q.processing

\* reconcileHandler: whether the returned result asks for a delayed re-Add
\* (rate-limited after an error, after RequeueAfter otherwise).
Requeues(result) == result.err # Nil \/ result.RequeueAfter > 0

----------------------------------------------------------------------------
(* Initial states *)

InitWith(N) ==
    /\ names = N
    /\ store = {}
    /\ changes = 0
    /\ pending = {}
    /\ queue = <<>>
    /\ dirty = {}
    /\ processing = {}
    /\ waiting = {}
    /\ active = EmptyBag
    /\ cluster = {}
    /\ ret = NoReturn
    /\ api = NoRequest

\* The controller right after construction, nothing created yet.
Init == InitWith(Names)

\* The same with a single NodeClaim name.
InitOne == InitWith({"ng-1"})

\* A running controller with more names to reconcile than it has workers:
\* every NodeClaim of PoolNames was mirrored and has since been deleted from
\* the Resource Store, every name is queued, and one delete notification is
\* still on its way.
InitPool ==
    /\ names = PoolNames
    /\ store = {}
    /\ changes = MaxChanges
    /\ pending = {"ng-1"}
    /\ queue = <<"ng-1", "ng-2", "ng-3", "ng-4", "ng-5", "ng-6", "ng-7", "ng-8",
                 "ng-9", "ng-10", "ng-11">>
    /\ dirty = PoolNames
    /\ processing = {}
    /\ waiting = {}
    /\ active = EmptyBag
    /\ cluster = {NodeClaim(k, "spec-a", "ready") : k \in PoolNames}
    /\ ret = NoReturn
    /\ api = NoRequest

----------------------------------------------------------------------------
(* Resource Store writes, made by the capacity-decision and lifecycle      *)
(* collaborators; each emits a notification for the name it touched.       *)

\* A notification names the NodeClaim it is about and carries nothing else.
Notify(k) == pending' = pending \cup {k}

Create(k, sp) ==
    /\ changes < MaxChanges
    /\ ~Has(store, k)
    /\ store' = store \cup {NodeClaim(k, sp, "")}
    /\ changes' = changes + 1
    /\ Notify(k)
    /\ ret' = NoReturn
    /\ UNCHANGED <<api, names, queue, dirty, processing, waiting, active, cluster>>

UpdateStatus(k, st) ==
    /\ changes < MaxChanges
    /\ \E x \in Entry(store, k) :
          /\ x.status # st
          /\ store' = (store \ {x}) \cup {NodeClaim(k, x.spec, st)}
    /\ changes' = changes + 1
    /\ Notify(k)
    /\ ret' = NoReturn
    /\ UNCHANGED <<api, names, queue, dirty, processing, waiting, active, cluster>>

Delete(k) ==
    /\ changes < MaxChanges
    /\ Has(store, k)
    /\ store' = store \ Entry(store, k)
    /\ changes' = changes + 1
    /\ Notify(k)
    /\ ret' = NoReturn
    /\ UNCHANGED <<api, names, queue, dirty, processing, waiting, active, cluster>>

----------------------------------------------------------------------------
(* Notification channel: a notification is delivered (enqueues its name),  *)
(* delivered and kept for a later duplicate delivery, or dropped.          *)

Deliver(n) ==
    /\ n \in pending
    /\ pending' = pending \ {n}
    /\ SetQ(QAdd(Q, n))
    /\ ret' = NoReturn
    /\ UNCHANGED <<api, names, store, changes, waiting, active, cluster>>

Redeliver(n) ==
    /\ n \in pending
    /\ SetQ(QAdd(Q, n))
    /\ ret' = NoReturn
    /\ UNCHANGED <<api, names, store, changes, pending, waiting, active, cluster>>

Drop(n) ==
    /\ n \in pending
    /\ pending' = pending \ {n}
    /\ ret' = NoReturn
    /\ UNCHANGED <<api, names, store, changes, queue, dirty, processing, waiting,
                   active, cluster>>

\* The delay of a delayed Add (RequeueAfter, or the rate limiter's) expires.
TimerFire(k) ==
    /\ k \in waiting
    /\ waiting' = waiting \ {k}
    /\ SetQ(QAdd(Q, k))
    /\ ret' = NoReturn
    /\ UNCHANGED <<api, names, store, changes, pending, active, cluster>>

----------------------------------------------------------------------------
(* A reconciliation cycle, in the two steps its one blocking call divides  *)
(* it into.                                                                *)

\* A free worker takes the name at the head of the queue and calls
\* Reconcile, which sends its Get; the Get returns the store's answer
\* (fault = Nil) or fails in transit.
ReconcileGet(k, fault) ==
    /\ queue # <<>>
    /\ Head(queue) = k
    /\ BagCardinality(active) < MaxConcurrentReconciles
    /\ LET resp == IF fault = Nil THEN StoreServe(store, KubeRequest(k))
                                  ELSE StoreFail(store, fault)
       IN  /\ store' = resp.store
           /\ active' = active (+) SetToBag({[req |-> k, err |-> resp.err,
                                              nodeClaim |-> resp.obj]})
    /\ SetQ(QGet(Q))
    /\ ret' = NoReturn
    /\ UNCHANGED <<api, names, changes, pending, waiting, cluster>>

\* Reconcile acts on what its Get returned and returns; the worker handles
\* the result and marks the name Done.
ReconcileReturn(cyc) ==
    /\ cyc \in BagToSet(active)
    /\ LET calls  == ClusterCalls(cyc.req, cyc.err, cyc.nodeClaim)
           result == ReconcileResult(cyc.err)
           after  == ApplyCalls(cluster, calls)
       IN  /\ cluster' = after
           /\ waiting' = IF Requeues(result) THEN waiting \cup {cyc.req} ELSE waiting
           /\ ret' = [req |-> cyc.req, err |-> cyc.err, nodeClaim |-> cyc.nodeClaim,
                      calls |-> calls, result |-> result,
                      changed |-> after # cluster]
    /\ active' = active (-) SetToBag({cyc})
    /\ SetQ(QDone(Q, cyc.req))
    /\ UNCHANGED <<api, names, store, changes, pending>>

----------------------------------------------------------------------------
(* Write requests to the Resource Store, validated at its write boundary   *)

\* The values lists requirements are drawn from: empty, words, numbers
\* (zero, several digits, negative, signed zero), two numbers, and lists
\* as long as the minValues bounds.
Repeat(x, n) == [i \in 1..n |-> x]

ValueLists ==
    { <<>>,
      << <<"a">> >>,
      << <<"a">>, <<"b">> >>,
      << <<"0">> >>,
      << <<"1", "2">> >>,
      << <<"-", "1">> >>,
      << <<"-", "0">> >>,
      << <<"7">>, <<"8">> >>,
      Repeat(<<"v">>, MinValuesMaximum),
      Repeat(<<"v">>, MinValuesMaximum + 1) }

MinValuesChoices ==
    {NoMinValues, MinValues(0), MinValues(1), MinValues(2), MinValues(3),
     MinValues(MinValuesMaximum), MinValues(MinValuesMaximum + 1)}

Requirements ==
    {Requirement("zone", op, vs, mv) :
        op \in Operators, vs \in ValueLists, mv \in MinValuesChoices}

\* A requirement every rule accepts.
GoodRequirement == Requirement("zone", "In", << <<"a">>, <<"b">> >>, MinValues(2))

\* Requirements lists: empty, of one requirement, of two with an accepted
\* one before or after, and of MaxItems and MaxItems + 1 elements.
RequirementsLists ==
    {<<>>}
    \cup {<<x>> : x \in Requirements}
    \cup {<<GoodRequirement, x>> : x \in {y \in Requirements : y.minValues = NoMinValues}}
    \cup {<<x, GoodRequirement>> : x \in {y \in Requirements : y.minValues = NoMinValues}}
    \cup {Repeat(GoodRequirement, MaxItems), Repeat(GoodRequirement, MaxItems + 1),
          Append(Repeat(GoodRequirement, MaxItems - 1),
                 Requirement("zone", "In", <<>>, NoMinValues))}

Taint(key, value, effect) == [key |-> key, value |-> value, effect |-> effect]

TaintLists == {<<>>, <<Taint("dedicated", "gpu", "NoSchedule")>>}

ResourceChoices == {[requests |-> {}],
                    [requests |-> {[name |-> "cpu", quantity |-> "1"]}]}

NodeClassRefs == {[group |-> "karpenter.test", kind |-> "NodeClass", name |-> "default"],
                  [group |-> "karpenter.test", kind |-> "NodeClass", name |-> "other"]}

SpecWith(requirements) ==
    NodeClaimSpec(<<>>, <<>>, requirements, [requests |-> {}],
                  [group |-> "karpenter.test", kind |-> "NodeClass", name |-> "default"])

\* The specs that differ from spec in exactly one field.
OneFieldChanged(spec) ==
    {[spec EXCEPT !.taints = t] : t \in TaintLists \ {spec.taints}}
    \cup {[spec EXCEPT !.startupTaints = t] : t \in TaintLists \ {spec.startupTaints}}
    \cup {[spec EXCEPT !.requirements = r] :
            r \in {<<>>, <<GoodRequirement>>} \ {spec.requirements}}
    \cup {[spec EXCEPT !.resources = r] : r \in ResourceChoices \ {spec.resources}}
    \cup {[spec EXCEPT !.nodeClassRef = c] : c \in NodeClassRefs \ {spec.nodeClassRef}}

\* The specs create requests are drawn from.
CreateSpecs ==
    {SpecWith(r) : r \in RequirementsLists} \cup OneFieldChanged(SpecWith(<<GoodRequirement>>))

Answer(verb, k, spec, violations) ==
    [verb |-> verb, name |-> k, spec |-> spec, violations |-> violations,
     accepted |-> violations = {}]

\* Create: the NodeClaim is stored if validation finds nothing.
CreateRequest(k, spec) ==
    /\ ~Has(store, k)
    /\ LET violations == ValidateCreate(spec)
       IN  /\ api' = Answer("create", k, spec, violations)
           /\ IF violations = {}
              THEN store' = store \cup {NodeClaim(k, spec, "")} /\ Notify(k)
              ELSE UNCHANGED <<store, pending>>
    /\ ret' = NoReturn
    /\ UNCHANGED <<names, changes, queue, dirty, processing, waiting, active, cluster>>

\* Update: the new spec and status replace the stored ones if validation,
\* which sees the stored spec as oldSelf, finds nothing.
UpdateRequest(k, spec, status) ==
    /\ \E old \in Entry(store, k) :
          LET violations == ValidateUpdate(spec, old.spec)
          IN  /\ api' = Answer("update", k, spec, violations)
              /\ IF violations = {}
                 THEN store' = (store \ {old}) \cup {NodeClaim(k, spec, status)}
                      /\ Notify(k)
                 ELSE UNCHANGED <<store, pending>>
    /\ ret' = NoReturn
    /\ UNCHANGED <<names, changes, queue, dirty, processing, waiting, active, cluster>>

DeleteRequest(k) ==
    /\ Has(store, k)
    /\ store' = store \ Entry(store, k)
    /\ Notify(k)
    /\ api' = Answer("delete", k, "", {})
    /\ ret' = NoReturn
    /\ UNCHANGED <<names, changes, queue, dirty, processing, waiting, active, cluster>>

\* The specs an update of the stored NodeClaim is drawn from: the stored
\* spec itself, the specs one field away from it, and specs that fail
\* validation.
UpdateSpecs(k) ==
    UNION {{old.spec} \cup OneFieldChanged(old.spec) : old \in Entry(store, k)}
        \cup {SpecWith(<<Requirement("zone", "In", <<>>, NoMinValues)>>)}

----------------------------------------------------------------------------
(* Specifications *)

Next ==
    \/ \E k \in names, sp \in SpecValues : Create(k, sp)
    \/ \E k \in names, st \in StatusValues : UpdateStatus(k, st)
    \/ \E k \in names : Delete(k)
    \/ \E n \in pending : Deliver(n)
    \/ \E n \in pending : Redeliver(n)
    \/ \E n \in pending : Drop(n)
    \/ \E k \in names : TimerFire(k)
    \/ \E k \in names, fault \in {Nil} \cup FetchErrors : ReconcileGet(k, fault)
    \/ \E cyc \in BagToSet(active) : ReconcileReturn(cyc)

Spec == Init /\ [][Next]_vars

\* The worker pool at work on a backlog: no store writes, no faults.
NextPool ==
    \/ \E n \in pending : Deliver(n)
    \/ \E n \in pending : Redeliver(n)
    \/ \E k \in names : ReconcileGet(k, Nil)
    \/ \E cyc \in BagToSet(active) : ReconcileReturn(cyc)

SpecPool == InitPool /\ [][NextPool]_vars

\* What the scheduling guarantees for a name: a queued name gets a worker and
\* its Get is eventually one that is answered, a cycle that has its answer
\* returns, a delay expires, and a notification that is not dropped arrives.
Fairness(k) ==
    /\ SF_vars(ReconcileGet(k, Nil))
    /\ WF_vars(\E cyc \in BagToSet(active) : cyc.req = k /\ ReconcileReturn(cyc))
    /\ WF_vars(TimerFire(k))
    /\ WF_vars(Deliver(k))

FairSpec == InitOne /\ [][Next]_vars /\ Fairness("ng-1")

\* The Resource Store answering write requests for one name.
NextAPI ==
    \/ \E k \in names, spec \in CreateSpecs : CreateRequest(k, spec)
    \/ \E k \in names : \E spec \in UpdateSpecs(k), st \in StatusValues :
          UpdateRequest(k, spec, st)
    \/ \E k \in names : DeleteRequest(k)

SpecAPI == InitOne /\ [][NextAPI]_vars

----------------------------------------------------------------------------
(* Properties *)

\* The step just taken was the return of a reconciliation cycle.
Returned == ret # NoReturn

DeleteCall(name) == [op |-> "DeleteNodeClaim", name |-> name]
UpdateCall(nodeClaim) == [op |-> "UpdateNodeClaim", nodeClaim |-> nodeClaim]

\* C1: a cycle whose Get reported not-found has called DeleteNodeClaim for
\* its own name exactly once, has made no UpdateNodeClaim call, and returns
\* a nil error.
C1_NotFoundDeletesOnce ==
    (Returned /\ ret.err = NotFound) =>
        /\ ret.calls = <<DeleteCall(ret.req)>>
        /\ ret.result.err = Nil

\* A not-found cycle has just removed an entry that was mirrored.
C1_Witness ==
    /\ Returned
    /\ ret.err = NotFound
    /\ ret.changed
    /\ ret.calls = <<DeleteCall(ret.req)>>

\* C2: a cycle whose Get failed with an error other than not-found returns
\* that very error, has called neither UpdateNodeClaim nor DeleteNodeClaim,
\* and has left the whole Cluster State Store as it was.
C2_FetchErrorPropagates ==
    (Returned /\ ret.err \in FetchErrors) =>
        /\ ret.calls = <<>>
        /\ ret.result.err = ret.err
        /\ ~ret.changed

\* A cancelled Get for a name whose record is gone from the Resource Store
\* while its entry is still mirrored: the stale entry stays.
C2_Witness ==
    /\ Returned
    /\ ret.err = "Canceled"
    /\ Has(cluster, ret.req)
    /\ ~Has(store, ret.req)

\* C3: whenever a step removes the entry of a name from the Cluster State
\* Store, that step is the return of a cycle for that name whose Get
\* reported not-found.
C3_OnlyNotFoundRemoves ==
    [][\A k \in names :
          (Has(cluster, k) /\ ~Has(cluster', k)) =>
              /\ ret' # NoReturn
              /\ ret'.req = k
              /\ ret'.err = NotFound]_vars

\* A deadline expired on the Get for a mirrored name whose record is gone, a
\* retry is scheduled, and the entry is still there.
C3_Witness ==
    /\ Returned
    /\ ret.err = "DeadlineExceeded"
    /\ Has(cluster, ret.req)
    /\ ~Has(store, ret.req)
    /\ ret.req \in waiting

\* C4: a cycle whose Get succeeded has called UpdateNodeClaim exactly once,
\* with the fetched NodeClaim, and no DeleteNodeClaim; right after it the
\* Cluster State Store holds for that name exactly the fetched record.
C4_SuccessUpsertsFetched ==
    (Returned /\ ret.err = Nil) =>
        /\ ret.calls = <<UpdateCall(ret.nodeClaim)>>
        /\ ret.nodeClaim.name = ret.req
        /\ Entry(cluster, ret.req) = {ret.nodeClaim}

\* The upsert changed the entry, to the value fetched, which the Resource
\* Store has meanwhile replaced by another.
C4_Witness ==
    /\ Returned
    /\ ret.err = Nil
    /\ ret.changed
    /\ Has(store, ret.req)
    /\ Entry(store, ret.req) # {ret.nodeClaim}

\* The name the single-name specification runs on.
OneName == "ng-1"

\* A cycle for the name is queued, running, or scheduled by a delay, or a
\* notification for it is on its way.
Scheduled(k) ==
    k \in pending \/ k \in dirty \/ k \in processing \/ k \in waiting

\* C5: once the record of the name is gone from the Resource Store for good,
\* the Cluster State Store eventually has no entry for it and keeps having
\* none, whatever was delivered, duplicated, dropped or raced before.
C5_DeletionConverges ==
    <>[](~Has(store, OneName) => ~Has(cluster, OneName))

\* A cycle that fetched the record before its deletion has upserted it after:
\* the entry is mirrored although the record is gone.
C5_Witness ==
    /\ Returned
    /\ ret.req = OneName
    /\ ret.err = Nil
    /\ ret.changed
    /\ ~Has(store, OneName)
    /\ Has(cluster, OneName)

\* C6, as claimed: whatever notifications were dropped, the Cluster State
\* Store eventually holds for the name what the Resource Store holds.
C6_AlwaysHeals ==
    <>[](Entry(cluster, OneName) = Entry(store, OneName))

\* C6, amended: eventually the Cluster State Store holds for the name what
\* the Resource Store holds, unless the record exists, was never mirrored
\* since it was created, and no cycle for the name is scheduled.
C6_HealsWhenScheduled ==
    <>[](\/ Entry(cluster, OneName) = Entry(store, OneName)
         \/ /\ Has(store, OneName)
            /\ ~Has(cluster, OneName)
            /\ ~Scheduled(OneName))

\* The notification of a status update was dropped: the mirrored entry is
\* stale, nothing is queued or running, and only the resync delay is left.
C6_Witness ==
    /\ Has(store, OneName)
    /\ Has(cluster, OneName)
    /\ Entry(cluster, OneName) # Entry(store, OneName)
    /\ OneName \notin pending
    /\ OneName \notin dirty
    /\ OneName \notin processing
    /\ OneName \in waiting

\* C7: a cycle whose Get succeeded returns RequeueAfter = stateRetryPeriod
\* and a nil error, and the name is then waiting for its delayed re-Add,
\* whether or not the upsert changed the Cluster State Store.
C7_SuccessRequeues ==
    (Returned /\ ret.err = Nil) =>
        /\ ret.result = [RequeueAfter |-> stateRetryPeriod, err |-> Nil]
        /\ ret.req \in waiting

\* A successful cycle whose upsert changed nothing.
C7_Witness ==
    /\ Returned
    /\ ret.err = Nil
    /\ ~ret.changed
    /\ ret.req \in waiting

CyclesOf(k) == {cyc \in BagToSet(active) : cyc.req = k}

C10_StoreOnlyRead ==
    [][active' # active => store' = store]_vars

\* A cycle has mirrored a record and the Resource Store still holds exactly
\* that record.
C10_Witness ==
    /\ Returned
    /\ ret.err = Nil
    /\ ret.changed
    /\ Entry(store, ret.req) = {ret.nodeClaim}

\* The write request just answered was a create or an update that carried
\* the requirements list it was validated on.
Validated == api.verb \in {"create", "update"}

\* The request just answered carried exactly one requirement.
OneRequirement == Validated /\ Len(api.spec.requirements) = 1

TheRequirement == api.spec.requirements[1]

\* The requirement has minValues set, within its bounds.
MinValuesSet(x) == HasMinValues(x) /\ MinValuesInRange(x)

GtLtViolated(x) ==
    /\ x.operator \in {"Gt", "Lt"}
    /\ ~(Len(x.values) = 1 /\ IntIsNonNegative(x.values[1]))

C12_SpecImmutable ==
    [][api'.verb = "update" =>
          \A old \in Entry(store, api'.name) :
              /\ api'.spec # old.spec =>
                    /\ ~api'.accepted
                    /\ "spec is immutable" \in api'.violations
                    /\ store' = store
              /\ api'.spec = old.spec =>
                    /\ api'.accepted
                    /\ \A new \in Entry(store', api'.name) : new.spec = old.spec]_vars

\* An update that changes nothing but nodeClassRef has been rejected, for
\* that reason alone.
C12_Witness ==
    /\ api.verb = "update"
    /\ ~api.accepted
    /\ api.violations = {"spec is immutable"}
    /\ \E old \in Entry(store, api.name) :
          /\ old.spec.nodeClassRef # api.spec.nodeClassRef
          /\ [old.spec EXCEPT !.nodeClassRef = api.spec.nodeClassRef] = api.spec

\* The strings among the values used here that denote a non-negative integer.
NonNegativeNumerals == { <<"0">>, <<"7">>, <<"8">>, <<"1", "2">>, <<"-", "0">> }

\* The values are exactly one string, and it denotes a non-negative integer.
OneNonNegativeInteger(values) ==
    Len(values) = 1 /\ values[1] \in NonNegativeNumerals

C13_WitnessNegative ==
    /\ OneRequirement
    /\ ~api.accepted
    /\ TheRequirement.operator = "Lt"
    /\ TheRequirement.values = << <<"-", "1">> >>

\* C14: a lone requirement with operator In and no minValues is rejected
\* exactly when its values are empty; in a list, a requirement with operator
\* In and no values rejects the request wherever it stands.
C14_InNeedsValue ==
    /\ (OneRequirement /\ api.verb = "create"
            /\ TheRequirement.operator = "In"
            /\ ~HasMinValues(TheRequirement)) =>
          (~api.accepted <=> TheRequirement.values = <<>>)
    /\ Validated =>
          \A i \in 1..Len(api.spec.requirements) :
              LET x == api.spec.requirements[i]
              IN  (x.operator = "In" /\ x.values = <<>>)
                      => /\ ~api.accepted
                         /\ "In must have a value" \in api.violations

\* A list of MaxItems requirements has been rejected for its last element
\* alone, an In without values.
C14_Witness ==
    /\ Validated
    /\ Len(api.spec.requirements) = MaxItems
    /\ ~api.accepted
    /\ api.violations = {"In must have a value"}
    /\ api.spec.requirements[1] = GoodRequirement
    /\ api.spec.requirements[MaxItems].values = <<>>

\* What a cycle that has returned fetched for its name: nothing, or a record.
Fetched == IF ret.err = NotFound THEN {} ELSE {ret.nodeClaim}

\* C15: after a cycle that returned without error, the entry of its name is
\* what that cycle fetched, whatever the entry was before and whatever was
\* delivered, duplicated or dropped before; so when what it fetched is what
\* the Resource Store holds now, the entry is the Resource Store's.
C15_ResultIsWhatWasFetched ==
    (Returned /\ ret.result.err = Nil) =>
        /\ Entry(cluster, ret.req) = Fetched
        /\ Fetched = Entry(store, ret.req) =>
              Entry(cluster, ret.req) = Entry(store, ret.req)

\* A cycle has replaced an older entry by the record the Resource Store
\* holds now, while another notification for the name was coalesced.
C15_Witness ==
    /\ Returned
    /\ ret.err = Nil
    /\ ret.changed
    /\ ret.nodeClaim.status = "ready"
    /\ Entry(store, ret.req) = {ret.nodeClaim}
    /\ ret.req \in dirty

\* C16: a step changes the Cluster State Store entry of a name only if it is
\* the return of a cycle for that name.
C16_KeyIsolation ==
    [][\A j \in names :
          Entry(cluster', j) # Entry(cluster, j) =>
              (ret' # NoReturn /\ ret'.req = j)]_vars

\* A cycle has changed the entry of its name while a cycle for another name,
\* which has an entry too, is in flight.
C16_Witness ==
    /\ Returned
    /\ ret.changed
    /\ \E cyc \in BagToSet(active) :
          /\ cyc.req # ret.req
          /\ Has(cluster, cyc.req)

\* C17, as claimed: once a not-found cycle has returned, no delayed re-Add
\* is outstanding for its name.
C17_NoResyncLeft ==
    (Returned /\ ret.err = NotFound) =>
        /\ ret.result = [RequeueAfter |-> 0, err |-> Nil]
        /\ ret.req \notin waiting

\* C17, amended: the return of a not-found cycle is the empty result and
\* adds no delayed re-Add; and once the record is gone for good, eventually
\* nothing is queued, running, delayed or on its way for the name.
C17_NotFoundRequestsNoResync ==
    /\ [][(ret' # NoReturn /\ ret'.err = NotFound) =>
              /\ ret'.result = [RequeueAfter |-> 0, err |-> Nil]
              /\ waiting' = waiting]_vars
    /\ <>[](~Has(store, OneName) => ~Scheduled(OneName))

\* The delete has been mirrored and nothing is scheduled for the name.
C17_Witness ==
    /\ Returned
    /\ ret.err = NotFound
    /\ ret.changed
    /\ ~Scheduled(ret.req)

\* C18: a request whose requirements list has more than 100 elements is
\* rejected, and so is a request with a requirement whose minValues is set
\* below 1 or above 50, whatever its operator and however many values it has.
C18_SchemaBounds ==
    Validated =>
        /\ Len(api.spec.requirements) > 100 =>
              /\ ~api.accepted
              /\ "MaxItems" \in api.violations
        /\ \A i \in 1..Len(api.spec.requirements) :
              LET x == api.spec.requirements[i]
              IN  (HasMinValues(x) /\ (x.minValues[1] < 1 \/ x.minValues[1] > 50))
                      => /\ ~api.accepted
                         /\ "minValues.Minimum/Maximum" \in api.violations

\* An In requirement with 51 values and minValues 51 breaks no rule but the
\* upper bound of minValues, and is rejected.
C18_Witness ==
    /\ OneRequirement
    /\ TheRequirement.operator = "In"
    /\ Len(TheRequirement.values) = 51
    /\ TheRequirement.minValues = MinValues(51)
    /\ ~api.accepted
    /\ api.violations = {"minValues.Minimum/Maximum"}

\* A list of 101 requirements, each of them accepted, is rejected for its
\* length alone.
C18_WitnessMaxItems ==
    /\ Validated
    /\ Len(api.spec.requirements) = 101
    /\ ~api.accepted
    /\ api.violations = {"MaxItems"}

====
